---- MODULE Spec2Model ----
(***************************************************************************)
(* Model of build_page.py: the content loader, the inline markup           *)
(* renderer (render_inline), the footer section-link resolver, the page    *)
(* renderer (build_html) and the accordion script embedded in the page.    *)
(*                                                                         *)
(* A Python str is a sequence of one-character strings.  Positions are     *)
(* Python's: 0-based, so text[i] of the source is text[i + 1] here.        *)
(* Rendered HTML is a sequence of tokens: a token is one escaped input     *)
(* character (a plain character or an entity such as "&amp;") or one       *)
(* literal piece of an f-string of the source (such as "<strong>").        *)
(***************************************************************************)
EXTENDS Integers, Sequences, FiniteSets, TLC

VARIABLES
    content,        \* the content directory: files and directories on disk
    listing,        \* the order in which the last run enumerated the directories
    prev,           \* the run before the last: its listing and the page it wrote
    sections,       \* build_html: the local sections of the last run
    out_html,       \* index.html as written by the last run (<<>>: not yet)
    dom,            \* the page: the elements of the loaded document
    is_active,      \* the page: element -> classList contains "is-active"
    aria,           \* the page: element -> aria-expanded / aria-hidden
    text,           \* render_inline: the argument text
    allow_links,    \* render_inline: the argument allow_links
    i,              \* render_inline: the scan position
    out             \* render_inline: the list out, flattened to tokens

pageVars == <<content, listing, prev, sections, out_html, dom, is_active, aria>>
inlineVars == <<text, allow_links, i, out>>
vars == <<content, listing, prev, sections, out_html, dom, is_active, aria,
          text, allow_links, i, out>>

(***************************************************************************)
(* Bounds of the checked inputs.                                           *)
(***************************************************************************)
MaxFrags == 3
MaxFiles == 2

(***************************************************************************)
(* Python str primitives.                                                  *)
(***************************************************************************)
\* text.startswith(prefix, i)
startswith(t, prefix, k) ==
    /\ k + Len(prefix) <= Len(t)
    /\ \A j \in 1..Len(prefix) : t[k + j] = prefix[j]

\* a faulty variant of find: the start argument is left out
find_from_start(t, sub, start) ==
    LET hits == {k \in 0..Len(t) : startswith(t, sub, k)}
    IN  IF hits = {} THEN -1 ELSE CHOOSE k \in hits : \A h \in hits : k <= h

\* text.find(sub, start): the lowest index >= start where sub occurs, else -1
find(t, sub, start) ==
    LET hits == {k \in start..Len(t) : startswith(t, sub, k)}
    IN  IF hits = {} THEN -1 ELSE CHOOSE k \in hits : \A h \in hits : k <= h

\* text[a:b]
slice(t, a, b) == SubSeq(t, a + 1, b)

IsSpace(c) == c \in {" ", "\t"}

\* text.strip()
strip(t) ==
    LET keep == {k \in 1..Len(t) : ~IsSpace(t[k])}
    IN  IF keep = {} THEN <<>>
        ELSE SubSeq(t, CHOOSE k \in keep : \A h \in keep : k <= h,
                       CHOOSE k \in keep : \A h \in keep : h <= k)

(***************************************************************************)
(* esc: html.escape(text, quote=True).                                     *)
(***************************************************************************)
esc_char_noquote(c) ==
    CASE c = "&" -> "&amp;"
      [] c = "<" -> "&lt;"
      [] c = ">" -> "&gt;"
      [] OTHER   -> c

esc_char(c) ==
    CASE c = "&"  -> "&amp;"
      [] c = "<"  -> "&lt;"
      [] c = ">"  -> "&gt;"
      [] c = "\"" -> "&quot;"
      [] c = "'"  -> "&#x27;"
      [] OTHER    -> c

esc(t) == [k \in 1..Len(t) |-> esc_char(t[k])]

(***************************************************************************)
(* render_inline.                                                          *)
(***************************************************************************)
LINK_OPEN == <<"<", "l", "i", "n", "k", ":">>

\* re.match(r'<link:"([^"]+)"=([^>]+)>', text[i:]): [^"]+ runs to the first
\* quote after the opening one and [^>]+ to the first ">" after "=", so the
\* match, when there is one, is unique.
link_match(t, k) ==
    LET q1   == k + 6                       \* the opening quote
        q2   == find(t, <<"\"">>, q1 + 1)   \* the quote closing TEXT
        gt   == IF q2 = -1 THEN -1 ELSE find(t, <<">">>, q2 + 2)
        ok   == /\ startswith(t, LINK_OPEN \o <<"\"">>, k)
                /\ q2 # -1
                /\ q2 > q1 + 1
                /\ startswith(t, <<"\"", "=">>, q2)
                /\ gt # -1
                /\ gt > q2 + 2
    IN  IF ok
        THEN [ok |-> TRUE, group1 |-> slice(t, q1 + 1, q2),
              group2 |-> slice(t, q2 + 2, gt), len |-> gt + 1 - k]
        ELSE [ok |-> FALSE, group1 |-> <<>>, group2 |-> <<>>, len |-> 0]

RECURSIVE render_inline(_, _)

\* line 178: the allow_links argument of the call on a link's TEXT
link_text_allow(allow) == FALSE

\* a faulty variant of bold_allow: the call falls back on the default, True
bold_default_allow(allow) == TRUE

\* lines 188, 195: the allow_links argument of the call on a bold's inner text
bold_allow(allow) == allow

\* One iteration of the while loop at position k: the tokens appended to out,
\* the next position, the branch taken, and the recursive calls made (rec).
scan_step(t, allow, k) ==
    LET m    == link_match(t, k)
        end2 == find(t, <<"*", "*">>, k + 2)
        end1 == find(t, <<"*">>, k + 1)
    IN  IF allow /\ startswith(t, LINK_OPEN, k) /\ m.ok
        THEN [branch |-> "link",
              rec |-> <<[text |-> m.group1, allow_links |-> link_text_allow(allow)]>>,
              out |-> <<"<a href=\"">> \o esc(strip(m.group2))
                      \o <<"\" target=\"_blank\" rel=\"noopener\">">>
                      \o render_inline(m.group1, link_text_allow(allow)) \o <<"</a>">>,
              i |-> k + m.len]
        ELSE IF startswith(t, <<"*", "*">>, k) /\ end2 # -1
        THEN [branch |-> "bold2",
              rec |-> <<[text |-> slice(t, k + 2, end2), allow_links |-> bold_allow(allow)]>>,
              out |-> <<"<strong>">>
                      \o render_inline(slice(t, k + 2, end2), bold_allow(allow))
                      \o <<"</strong>">>,
              i |-> end2 + 2]
        ELSE IF t[k + 1] = "*" /\ end1 # -1
        THEN [branch |-> "bold1",
              rec |-> <<[text |-> slice(t, k + 1, end1), allow_links |-> bold_allow(allow)]>>,
              out |-> <<"<strong>">>
                      \o render_inline(slice(t, k + 1, end1), bold_allow(allow))
                      \o <<"</strong>">>,
              i |-> end1 + 1]
        ELSE [branch |-> "literal", rec |-> <<>>,
              out |-> esc(<<t[k + 1]>>), i |-> k + 1]

RECURSIVE scan_loop(_, _, _, _)
scan_loop(t, allow, k, acc) ==
    IF k < Len(t)
    THEN LET s == scan_step(t, allow, k)
         IN  scan_loop(t, allow, s.i, acc \o s.out)
    ELSE acc

render_inline(t, allow) == scan_loop(t, allow, 0, <<>>)

(***************************************************************************)
(* Content Loader.  A file is [name, lines]: its name and the lines that   *)
(* read_text(path).splitlines() yields.  A directory listing is a sequence *)
(* of entries in the order the filesystem enumerates them.                 *)
(***************************************************************************)
DES == <<"D", "e", "s">>
TXT == <<".", "t", "x", "t">>
PIE == <<"P", "i", "e">> \o TXT

Digits == <<"0", "1", "2", "3", "4", "5", "6", "7", "8", "9">>

IsDigit(c) == \E d \in 1..10 : Digits[d] = c

DigitVal(c) == (CHOOSE d \in 1..10 : Digits[d] = c) - 1

\* int(digits)
RECURSIVE int(_)
int(ds) ==
    IF ds = <<>> THEN 0
    ELSE 10 * int(SubSeq(ds, 1, Len(ds) - 1)) + DigitVal(ds[Len(ds)])

\* the number of digits that \d+ takes from position k on
digit_run(t, k) ==
    LET stops == {j \in k..Len(t) : j = Len(t) \/ ~IsDigit(t[j + 1])}
    IN  (CHOOSE j \in stops : \A h \in stops : j <= h) - k

endswith(t, suffix) ==
    Len(suffix) <= Len(t) /\ startswith(t, suffix, Len(t) - Len(suffix))

\* [line.strip() for line in read_text(path).splitlines() if line.strip()]
RECURSIVE nonblank_lines(_)
nonblank_lines(ls) ==
    IF ls = <<>> THEN <<>>
    ELSE (IF strip(Head(ls)) = <<>> THEN <<>> ELSE <<strip(Head(ls))>>)
         \o nonblank_lines(Tail(ls))

\* line.rstrip()
rstrip(t) ==
    LET keep == {k \in 1..Len(t) : ~IsSpace(t[k])}
    IN  IF keep = {} THEN <<>>
        ELSE SubSeq(t, 1, CHOOSE k \in keep : \A h \in keep : h <= k)

\* re.match(r"^(.*?)\s*<([^>]+)>\s*$", line): the closing ">" is the last
\* character that is not whitespace, and the lazy group ends at the first "<"
\* after which no other ">" occurs.  group1 is given up to that "<": it may
\* keep trailing whitespace that \s* takes in the source, which every caller
\* strips.
full_link_match(line) ==
    LET body  == rstrip(line)
        opens == {p \in 0..(Len(body) - 3) :
                     /\ body[p + 1] = "<"
                     /\ \A j \in (p + 2)..(Len(body) - 1) : body[j] # ">"}
        p0    == CHOOSE p \in opens : \A h \in opens : p <= h
        ok    == Len(body) >= 3 /\ body[Len(body)] = ">" /\ opens # {}
    IN  IF ok
        THEN [ok |-> TRUE, group1 |-> slice(body, 0, p0),
              group2 |-> slice(body, p0 + 1, Len(body) - 1)]
        ELSE [ok |-> FALSE, group1 |-> <<>>, group2 |-> <<>>]

\* split_full_link: (text, url); without a match url is None, here <<>> with
\* matched = FALSE (the callers test only the truth of url)
split_full_link(t) ==
    LET m == full_link_match(t)
    IN  IF m.ok
        THEN [matched |-> TRUE, text |-> strip(m.group1), url |-> strip(m.group2)]
        ELSE [matched |-> FALSE, text |-> t, url |-> <<>>]

\* parse_sections, lines 56-66: the items of one section file
RECURSIVE section_items(_)
section_items(ls) ==
    IF ls = <<>> THEN <<>>
    ELSE LET line == strip(Head(ls))
             m    == full_link_match(line)
         IN  (IF line = <<>> THEN <<>>
              ELSE IF m.ok
              THEN <<[text |-> strip(m.group1), url |-> strip(m.group2)]>>
              ELSE <<[text |-> line, url |-> <<>>]>>)
             \o section_items(Tail(ls))

\* re.match(r"^Des(\d+)-(.+)\.txt$", path.name)
section_name_match(name) ==
    LET d    == digit_run(name, 3)
        rest == slice(name, 3 + d + 1, Len(name))
        ok   == /\ startswith(name, DES, 0)
                /\ d >= 1
                /\ startswith(name, <<"-">>, 3 + d)
                /\ endswith(rest, TXT)
                /\ Len(rest) >= 5
    IN  IF ok
        THEN [ok |-> TRUE, group1 |-> slice(name, 3, 3 + d),
              group2 |-> slice(rest, 0, Len(rest) - 4)]
        ELSE [ok |-> FALSE, group1 |-> <<>>, group2 |-> <<>>]

\* sorted(records, key=lambda r: r["order"]): Python's sort is stable
RECURSIVE sorted_by_order(_)
sorted_by_order(rs) ==
    IF rs = <<>> THEN <<>>
    ELSE LET front == sorted_by_order(SubSeq(rs, 1, Len(rs) - 1))
             last  == rs[Len(rs)]
             k     == Cardinality({j \in 1..Len(front) : front[j].order <= last.order})
         IN  SubSeq(front, 1, k) \o <<last>> \o SubSeq(front, k + 1, Len(front))

\* a faulty variant of sorted_by_order: the records are left in enumeration order
unsorted(rs) == rs

\* parse_sections, lines 49-67: the loop over base_dir.glob("Des*.txt")
RECURSIVE section_records(_)
section_records(dir) ==
    IF dir = <<>> THEN <<>>
    ELSE LET path == Head(dir)
             m    == section_name_match(path.name)
         IN  (IF startswith(path.name, DES, 0) /\ endswith(path.name, TXT) /\ m.ok
              THEN <<[order |-> int(m.group1), title |-> strip(m.group2),
                      items |-> section_items(path.lines)]>>
              ELSE <<>>)
             \o section_records(Tail(dir))

sort_sections(rs) == sorted_by_order(rs)

\* parse_sections; dir is the enumeration of Despegables (<<>> when the
\* directory does not exist or is empty)
parse_sections(dir) == sort_sections(section_records(dir))

\* re.match(r"^(\d+)\.(.+)\.txt$", path.name)
button_name_match(name) ==
    LET d    == digit_run(name, 0)
        rest == slice(name, d + 1, Len(name))
        ok   == /\ d >= 1
                /\ startswith(name, <<".">>, d)
                /\ endswith(rest, TXT)
                /\ Len(rest) >= 5
    IN  IF ok
        THEN [ok |-> TRUE, group1 |-> slice(name, 0, d),
              group2 |-> slice(rest, 0, Len(rest) - 4)]
        ELSE [ok |-> FALSE, group1 |-> <<>>, group2 |-> <<>>]

\* str.lower() on the characters of the model's alphabet
lower_char(c) ==
    CASE c = "A" -> "a" [] c = "B" -> "b" [] c = "P" -> "p" [] c = "X" -> "x"
      [] c = "Y" -> "y" [] c = "Z" -> "z" [] c = "D" -> "d" [] c = "G" -> "g"
      [] c = "H" -> "h" [] c = "Aacute" -> "aacute" [] OTHER -> c

lower(t) == [k \in 1..Len(t) |-> lower_char(t[k])]

\* " ".join(lines)
RECURSIVE join_space(_)
join_space(ls) ==
    IF ls = <<>> THEN <<>>
    ELSE IF Len(ls) = 1 THEN Head(ls)
    ELSE Head(ls) \o <<" ">> \o join_space(Tail(ls))

\* parse_buttons, lines 88-103: the loop over group_dir.glob("*.txt")
RECURSIVE button_records(_)
button_records(dir) ==
    IF dir = <<>> THEN <<>>
    ELSE LET path == Head(dir)
             m    == button_name_match(path.name)
         IN  (IF /\ endswith(path.name, TXT)
                 /\ lower(path.name) # lower(PIE)
                 /\ m.ok
              THEN <<[order |-> int(m.group1), title |-> strip(m.group2),
                      text |-> join_space(nonblank_lines(path.lines))]>>
              ELSE <<>>)
             \o button_records(Tail(dir))

sort_buttons(rs) == sorted_by_order(rs)

\* parse_buttons, lines 80-86: the footer of a group, from <group>/Pie.txt
footer_text(dir) ==
    LET pies == {k \in 1..Len(dir) : dir[k].name = PIE}
    IN  IF pies = {} THEN <<>>
        ELSE join_space(nonblank_lines(dir[CHOOSE k \in pies : TRUE].lines))

\* parse_buttons; dirs is the enumeration of Botones, each entry
\* [name, is_dir, files], files being the enumeration of that directory
RECURSIVE parse_buttons(_)
parse_buttons(dirs) ==
    IF dirs = <<>> THEN <<>>
    ELSE LET group_dir == Head(dirs)
             buttons   == button_records(group_dir.files)
         IN  (IF group_dir.is_dir /\ buttons # <<>>
              THEN <<[title |-> group_dir.name,
                      buttons |-> sort_buttons(buttons),
                      footer |-> footer_text(group_dir.files)]>>
              ELSE <<>>)
             \o parse_buttons(Tail(dirs))

(***************************************************************************)
(* Section-link resolver.  The accented capital A is the one-character     *)
(* string "Aacute"; its canonical decomposition is "A" followed by the     *)
(* combining mark "acute" (category Mn).                                   *)
(***************************************************************************)
\* unicodedata.normalize("NFD", text)
RECURSIVE nfd(_)
nfd(t) ==
    IF t = <<>> THEN <<>>
    ELSE (CASE Head(t) = "Aacute" -> <<"A", "acute">>
            [] Head(t) = "aacute" -> <<"a", "acute">>
            [] OTHER -> <<Head(t)>>)
         \o nfd(Tail(t))

\* unicodedata.category(ch) == "Mn"
IsMn(c) == c = "acute"

\* [a-z0-9]
IsLowerAlnum(c) ==
    \/ IsDigit(c)
    \/ c \in {"a", "b", "c", "d", "e", "g", "h", "i", "k", "l", "n", "p", "s",
              "t", "u", "x", "y", "z"}

normalize_text(t) ==
    SelectSeq(lower(SelectSeq(nfd(t), LAMBDA c : ~IsMn(c))), IsLowerAlnum)

\* needle in haystack
contains(haystack, needle) == find(haystack, needle, 0) # -1

\* f"sec-{order:02d}"
sec_id(order) == "sec-" \o (IF order < 10 THEN "0" ELSE "") \o ToString(order)

\* re.split(r"(<[^>]+>)", text) from position k on: the pieces between the
\* matches and the matches themselves, alternating
RECURSIVE split_labels(_, _)
split_labels(t, k) ==
    LET opens == {p \in k..(Len(t) - 1) :
                     /\ t[p + 1] = "<"
                     /\ find(t, <<">">>, p + 1) > p + 1}
        p0    == CHOOSE p \in opens : \A h \in opens : p <= h
        gt    == find(t, <<">">>, p0 + 1)
    IN  IF opens = {} THEN <<slice(t, k, Len(t))>>
        ELSE <<slice(t, k, p0), slice(t, p0, gt + 1)>> \o split_labels(t, gt + 1)

\* a faulty variant of first_match: the last matching section wins
RECURSIVE last_match(_, _)
last_match(needle, secs) ==
    IF secs = <<>> THEN ""
    ELSE IF last_match(needle, Tail(secs)) # "" THEN last_match(needle, Tail(secs))
    ELSE IF needle # <<>> /\ contains(normalize_text(Head(secs).title), needle)
    THEN sec_id(Head(secs).order)
    ELSE ""

\* lines 218-223: the identifier of the first section whose normalized title
\* contains the normalized label; "" when there is none
RECURSIVE first_match(_, _)
first_match(needle, secs) ==
    IF secs = <<>> THEN ""
    ELSE IF needle # <<>> /\ contains(normalize_text(Head(secs).title), needle)
    THEN sec_id(Head(secs).order)
    ELSE first_match(needle, Tail(secs))

target_of(label, secs) == first_match(normalize_text(label), secs)

INDICATOR_LINK == "<a class=\"indicator-link\" href=\"#\" data-open=\""

\* a faulty variant of render_unmatched: the angle brackets are kept
render_with_brackets(part, label) == render_inline(part, TRUE)

\* line 230: a bracketed part whose label matches no section
render_unmatched(part, label) == render_inline(label, TRUE)

\* lines 216-232: one part of the split footer
render_part(part, secs) ==
    IF startswith(part, <<"<">>, 0) /\ endswith(part, <<">">>)
    THEN LET label     == strip(slice(part, 1, Len(part) - 1))
             target_id == target_of(label, secs)
         IN  IF target_id # ""
             THEN <<INDICATOR_LINK, target_id, "\">">>
                  \o render_inline(label, TRUE) \o <<"</a>">>
             ELSE render_unmatched(part, label)
    ELSE render_inline(part, TRUE)

RECURSIVE render_parts(_, _)
render_parts(parts, secs) ==
    IF parts = <<>> THEN <<>>
    ELSE render_part(Head(parts), secs) \o render_parts(Tail(parts), secs)

render_footer_with_section_links(t, secs) ==
    IF t = <<>> THEN <<>> ELSE render_parts(split_labels(t, 0), secs)

(***************************************************************************)
(* Content Loader, the single files.  A file is [exists, lines].           *)
(***************************************************************************)
\* parse_title: (header, title, subtitle)
parse_title(file) ==
    LET lines == IF file.exists THEN nonblank_lines(file.lines) ELSE <<>>
    IN  [header   |-> IF Len(lines) > 0 THEN lines[1] ELSE <<>>,
         title    |-> IF Len(lines) > 1 THEN lines[2] ELSE <<>>,
         subtitle |-> IF Len(lines) > 2 THEN lines[3] ELSE <<>>]

\* parse_body
parse_body(file) == IF file.exists THEN nonblank_lines(file.lines) ELSE <<>>

\* parse_beneficiarios; some = FALSE stands for None
parse_beneficiarios(file) ==
    LET lines == IF file.exists THEN nonblank_lines(file.lines) ELSE <<>>
        cut   == Len(lines) > 2
        kept  == IF cut THEN SubSeq(lines, 1, Len(lines) - 1) ELSE lines
    IN  IF lines = <<>>
        THEN [some |-> FALSE, lead |-> <<>>, lines |-> <<>>, button |-> <<>>]
        ELSE [some |-> TRUE, lead |-> kept[1], lines |-> Tail(kept),
              button |-> IF cut THEN lines[Len(lines)] ELSE <<>>]

\* ord(c) for the characters of the names of the registration files
ord(c) ==
    CASE c = "." -> 46 [] c = "2" -> 50 [] c = "E" -> 69 [] c = "G" -> 71
      [] c = "I" -> 73 [] c = "O" -> 79 [] c = "R" -> 82 [] c = "S" -> 83
      [] c = "T" -> 84 [] c = "t" -> 116 [] c = "x" -> 120 [] OTHER -> 0

\* a < b for two names, as Python orders str
name_less(a, b) ==
    \E k \in 0..Len(a) :
        /\ k <= Len(b)
        /\ \A j \in 1..k : a[j] = b[j]
        /\ IF k = Len(a) THEN k < Len(b)
           ELSE k < Len(b) /\ ord(a[k + 1]) < ord(b[k + 1])

\* sorted(CONTENT_DIR.glob("REGISTRO*.txt")); names in a directory differ
RECURSIVE sorted_names(_)
sorted_names(dir) ==
    IF dir = <<>> THEN <<>>
    ELSE LET front == sorted_names(SubSeq(dir, 1, Len(dir) - 1))
             last  == dir[Len(dir)]
             k     == Cardinality({j \in 1..Len(front) :
                                      name_less(front[j].name, last.name)})
         IN  SubSeq(front, 1, k) \o <<last>> \o SubSeq(front, k + 1, Len(front))

\* a faulty variant of sorted_paths: the matches are left in enumeration order
unsorted_paths(dir) == dir

\* line 135: sorted(...)
sorted_paths(dir) == sorted_names(dir)

\* parse_registro; dir is the enumeration of CONTENT_DIR.glob("REGISTRO*.txt")
parse_registro(dir) ==
    LET matches == sorted_paths(dir)
        lines == IF matches = <<>> THEN <<>> ELSE nonblank_lines(matches[1].lines)
    IN  IF lines = <<>>
        THEN [some |-> FALSE, title |-> <<>>, lines |-> <<>>, buttons |-> <<>>]
        ELSE [some |-> TRUE,
              title |-> slice(matches[1].name, 0, Len(matches[1].name) - 4),
              lines |-> SubSeq(lines, 1, 1), buttons |-> Tail(lines)]

\* parse_contacto
parse_contacto(file) == IF file.exists THEN nonblank_lines(file.lines) ELSE <<>>

\* parse_redes
RECURSIVE redes_entries(_)
redes_entries(ls) ==
    IF ls = <<>> THEN <<>>
    ELSE LET line == strip(Head(ls))
             nu   == split_full_link(line)
         IN  (IF line # <<>> /\ nu.url # <<>> /\ nu.text # <<>>
              THEN <<[name |-> nu.text, url |-> nu.url]>> ELSE <<>>)
             \o redes_entries(Tail(ls))

parse_redes(file) == IF file.exists THEN redes_entries(file.lines) ELSE <<>>

\* choose_main_image; img is which of im_principal.png / .jpg exist
choose_main_image(img) ==
    IF img.png THEN "assets/img/im_principal.png"
    ELSE IF img.jpg THEN "assets/img/im_principal.jpg"
    ELSE "assets/img/im_principal.png"

(***************************************************************************)
(* Page Renderer.                                                          *)
(***************************************************************************)
\* "\n".join(pieces)
RECURSIVE join_nl(_)
join_nl(pieces) ==
    IF pieces = <<>> THEN <<>>
    ELSE IF Len(pieces) = 1 THEN Head(pieces)
    ELSE Head(pieces) \o <<"\n">> \o join_nl(Tail(pieces))

\* "".join(pieces)
RECURSIVE join_empty(_)
join_empty(pieces) ==
    IF pieces = <<>> THEN <<>> ELSE Head(pieces) \o join_empty(Tail(pieces))

\* line 264
body_html(body_lines) ==
    LET html == join_nl([k \in 1..Len(body_lines) |->
                            <<"<p>">> \o esc(body_lines[k]) \o <<"</p>">>])
    IN  IF html = <<>> THEN <<"<p></p>">> ELSE html

\* lines 266-294
beneficiarios_html(b) ==
    IF ~b.some THEN <<>>
    ELSE LET link == split_full_link(b.button)
             button_html ==
                 IF b.button # <<>> /\ link.url # <<>>
                 THEN <<"<a class=\"beneficiarios-button\" href=\"">> \o esc(link.url)
                      \o <<"\" target=\"_blank\" rel=\"noopener\">">>
                      \o render_inline(link.text, TRUE) \o <<"</a>">>
                 ELSE <<>>
         IN  <<"<section class=\"beneficiarios\" data-animate=\"3\">",
               "<div class=\"beneficiarios-text\">",
               "<p class=\"beneficiarios-title\">", "BENEFICIARIOS", "</p>",
               "<p class=\"beneficiarios-lead\">">>
             \o render_inline(b.lead, TRUE) \o <<"</p>">>
             \o join_nl([k \in 1..Len(b.lines) |->
                    <<"<p>">> \o render_inline(b.lines[k], TRUE) \o <<"</p>">>])
             \o button_html
             \o <<"</div>",
                  "<div class=\"beneficiarios-map\"><img src=\"assets/img/mapa.png\" alt=\"Mapa\"></div>",
                  "</section>">>

\* lines 302-310: the buttons of the registration block
registro_button(line) ==
    LET link == split_full_link(line)
    IN  IF link.url # <<>>
        THEN <<"<a class=\"registro-button\" href=\"">> \o esc(link.url)
             \o <<"\" target=\"_blank\" rel=\"noopener\">">>
             \o render_inline(link.text, TRUE) \o <<"</a>">>
        ELSE <<>>

\* lines 296-328
registro_html(r) ==
    IF ~r.some THEN <<>>
    ELSE LET registro_buttons ==
                 join_empty([k \in 1..Len(r.buttons) |-> registro_button(r.buttons[k])])
         IN  <<"<section class=\"registro-band\" data-animate=\"3\">",
               "<div class=\"registro\">",
               "<div class=\"registro-media\"><img src=\"assets/img/plataforma.png\" alt=\"Plataforma\"></div>",
               "<div class=\"registro-text\">",
               "<p class=\"registro-title\">">> \o esc(r.title) \o <<"</p>">>
             \o join_nl([k \in 1..Len(r.lines) |->
                    <<"<p>">> \o render_inline(r.lines[k], TRUE) \o <<"</p>">>])
             \o (IF registro_buttons # <<>>
                 THEN <<"<div class=\"registro-buttons\">">> \o registro_buttons
                      \o <<"</div>">>
                 ELSE <<>>)
             \o <<"</div>", "</div>", "</section>">>

\* lines 330-349
contacto_html(contacto_lines, redes) ==
    IF contacto_lines = <<>> /\ redes = <<>> THEN <<>>
    ELSE <<"<section class=\"contacto\" data-animate=\"3\">">>
         \o join_nl([k \in 1..Len(contacto_lines) |->
                <<"<p>">> \o render_inline(contacto_lines[k], TRUE) \o <<"</p>">>])
         \o (IF redes # <<>>
             THEN <<"<div class=\"redes-icons\">">>
                  \o join_empty([k \in 1..Len(redes) |->
                         <<"<a href=\"">> \o esc(redes[k].url)
                         \o <<"\" target=\"_blank\" rel=\"noopener\">", "<img src=\"",
                              "assets/img/iconos/">> \o esc(redes[k].name)
                         \o <<"\" alt=\"">> \o esc(redes[k].name) \o <<"\">", "</a>">>])
                  \o <<"</div>">>
             ELSE <<>>)
         \o <<"</section>">>

\* lines 356-366: one indicator card
indicator_card(button) ==
    <<"<div class=\"indicator-card\">",
      "<img class=\"indicator-icon\" src=\"assets/img/iconos/indicador",
      ToString(button.order), ".png\" alt=\"Icono\">",
      "<p class=\"indicator-title\">">> \o render_inline(button.title, TRUE)
    \o <<"</p>", "<p class=\"indicator-text\">">> \o render_inline(button.text, TRUE)
    \o <<"</p>", "</div>">>

\* lines 354-384: one indicator group
indicator_group(group, secs) ==
    <<"<div class=\"indicator-group\">", "<h2 class=\"indicator-heading\">">>
    \o esc(group.title) \o <<"</h2>", "<div class=\"indicator-row\">">>
    \o join_nl([k \in 1..Len(group.buttons) |-> indicator_card(group.buttons[k])])
    \o <<"</div>">>
    \o (IF group.footer # <<>>
        THEN <<"<p class=\"indicator-footer\">">>
             \o render_footer_with_section_links(group.footer, secs) \o <<"</p>">>
        ELSE <<>>)
    \o <<"</div>">>

\* lines 351-390
buttons_html(buttons, secs) ==
    IF buttons = <<>> THEN <<>>
    ELSE <<"<section class=\"indicator-section\" data-animate=\"3\">">>
         \o join_nl([k \in 1..Len(buttons) |-> indicator_group(buttons[k], secs)])
         \o <<"</section>">>

\* lines 399-411: the list items of one section
items_html(items) ==
    LET html == join_nl([k \in 1..Len(items) |->
                    IF strip(items[k].url) # <<>>
                    THEN <<"<li><a href=\"">> \o esc(strip(items[k].url))
                         \o <<"\" target=\"_blank\" rel=\"noopener\">">>
                         \o esc(items[k].text) \o <<"</a></li>">>
                    ELSE <<"<li><span>">> \o esc(items[k].text) \o <<"</span></li>">>])
    IN  IF html = <<>> THEN <<"<li><span></span></li>">> ELSE html

\* line 395: the section rendered expanded is the one at index 0
expanded_index == 0

\* lines 393-425: the accordion item of sections[idx] (idx from 0)
accordion_item(idx, sec) ==
    LET id           == sec_id(sec.order)
        active_class == IF idx = expanded_index THEN " is-active" ELSE ""
        button_id    == id \o "-btn"
    IN  <<"<div class=\"sec-item\">",
          "<button id=\"", button_id, "\" class=\"sec-btn", active_class,
          "\" aria-expanded=\"", IF idx = expanded_index THEN "true" ELSE "false",
          "\" aria-controls=\"", id, "\" data-target=\"", id, "\">",
          "<span class=\"sec-title\">">> \o esc(sec.title)
        \o <<"</span>", "<span class=\"sec-arrow\" aria-hidden=\"true\">></span>",
             "</button>",
             "<div id=\"", id, "\" class=\"sec-panel", active_class,
             "\" role=\"region\" aria-labelledby=\"", button_id,
             "\" aria-hidden=\"", IF idx # expanded_index THEN "true" ELSE "false",
             "\">", "<ul>\n">>
        \o items_html(sec.items) \o <<"\n</ul></div>", "</div>">>

accordion_block(secs) ==
    join_nl([k \in 1..Len(secs) |-> accordion_item(k - 1, secs[k])])

\* lines 927-931: the container of the accordion in the page template
accordion_section(secs) ==
    <<"<section class=\"sections\" data-animate=\"3\">", "<div class=\"accordion\">">>
    \o accordion_block(secs) \o <<"</div>", "</section>">>

\* build_html: c is the content directory, ls the enumeration of its
\* directories in this run
build_html(c, ls) ==
    LET t    == parse_title(c.Titulo)
        secs == parse_sections(ls.Despegables)
        page_title == IF t.title # <<>> THEN t.title
                      ELSE IF t.header # <<>> THEN t.header
                      ELSE <<"P", "a", "g", "i", "n", "a">>
    IN  <<"<!doctype html><html lang=\"es\"><head>", "<title>">> \o esc(page_title)
        \o <<"</title>", "<style>", "</style>", "</head>", "<body>",
             "<div class=\"page\">", "<header class=\"page-header\" data-animate=\"1\">",
             "<div>", "<p class=\"eyebrow\">">> \o esc(t.header)
        \o <<"</p>", "<h1>">> \o esc(t.title)
        \o <<"</h1>", "<p class=\"subtitle\">">> \o esc(t.subtitle)
        \o <<"</p>", "</div>",
             "<a class=\"logo-link\" href=\"https://www.onsv.gob.pe/\" target=\"_blank\" rel=\"noopener\">",
             "<img class=\"logo\" src=\"assets/img/logos/logo-onsv.png\" alt=\"Logo ONSV\">",
             "</a>", "</header>",
             "<section class=\"hero-band\" data-animate=\"2\">",
             "<div class=\"hero\">", "<img src=\"", choose_main_image(c.img),
             "\" alt=\"Imagen principal\">", "</div>", "</section>",
             "<section class=\"body-text\" data-animate=\"3\">">>
        \o body_html(parse_body(c.Cuerpo))
        \o <<"</section>",
             "<div class=\"section-divider\" aria-hidden=\"true\"></div>">>
        \o beneficiarios_html(parse_beneficiarios(c.BENEFICIARIOS))
        \o buttons_html(parse_buttons(ls.Botones), secs)
        \o registro_html(parse_registro(ls.REGISTRO))
        \o accordion_section(secs)
        \o contacto_html(parse_contacto(c.Contacto), parse_redes(c.Redes))
        \o <<"</div>", "<script>", "</script>", "</body>", "</html>">>

(***************************************************************************)
(* The page in the browser.  The document is the sequence of the elements  *)
(* the script reads, in document order: the accordion buttons (.sec-btn),  *)
(* the accordion panels (.sec-panel) and the footer links ([data-open]).   *)
(***************************************************************************)
element_at(html, p) ==
    CASE html[p] = "<button id=\"" ->
             [kind |-> "button", id |-> html[p + 1], target |-> html[p + 9],
              active |-> html[p + 3] = " is-active", aria |-> html[p + 5]]
      [] html[p] = "<div id=\"" ->
             [kind |-> "panel", id |-> html[p + 1], target |-> "",
              active |-> html[p + 3] = " is-active", aria |-> html[p + 7]]
      [] OTHER ->
             [kind |-> "link", id |-> "", target |-> html[p + 1],
              active |-> FALSE, aria |-> ""]

document(html) ==
    LET at  == {p \in 1..Len(html) :
                   html[p] \in {"<button id=\"", "<div id=\"", INDICATOR_LINK}}
        nth(k) == CHOOSE p \in at : Cardinality({q \in at : q < p}) = k - 1
    IN  [k \in 1..Cardinality(at) |-> element_at(html, nth(k))]

\* lines 937-938: querySelectorAll('.sec-btn'), querySelectorAll('.sec-panel')
buttons == {e \in 1..Len(dom) : dom[e].kind = "button"}
panels == {e \in 1..Len(dom) : dom[e].kind = "panel"}
\* line 980: querySelectorAll('[data-open]')
links == {e \in 1..Len(dom) : dom[e].kind = "link"}

\* document.getElementById(id): the first element with that id in document
\* order; 0 stands for null
getElementById(id) ==
    LET hits == {e \in 1..Len(dom) : dom[e].id = id}
    IN  IF hits = {} THEN 0 ELSE CHOOSE e \in hits : \A h \in hits : e <= h

\* buttons.find(btn => btn.dataset.target === targetId); 0 stands for undefined
find_button(targetId) ==
    LET hits == {e \in buttons : dom[e].target = targetId}
    IN  IF hits = {} THEN 0 ELSE CHOOSE e \in hits : \A h \in hits : e <= h

\* a faulty variant of closed_active: closeAll leaves the panels as they are
unclosed_active == [e \in 1..Len(dom) |-> IF e \in buttons THEN FALSE ELSE is_active[e]]

\* closeAll, lines 940-949: the class lists and the aria attributes afterwards
closed_active == [e \in 1..Len(dom) |->
                     IF e \in panels \/ e \in buttons THEN FALSE ELSE is_active[e]]
closed_aria == [e \in 1..Len(dom) |->
                   IF e \in panels THEN "true"
                   ELSE IF e \in buttons THEN "false" ELSE aria[e]]

\* lines 955-961 and 972-975: panel and button are marked open
opened_active(panel, button) ==
    [e \in 1..Len(dom) |-> IF e = panel \/ e = button THEN TRUE ELSE closed_active[e]]
opened_aria(panel, button) ==
    [e \in 1..Len(dom) |->
        IF e = panel THEN "false" ELSE IF e = button THEN "true" ELSE closed_aria[e]]

(***************************************************************************)
(* Content directories of the checked runs.                                *)
(***************************************************************************)
File(name, lines) == [name |-> name, lines |-> lines]

Missing == [exists |-> FALSE, lines |-> <<>>]

Present(lines) == [exists |-> TRUE, lines |-> lines]

\* Despegables: the files of orders 1 and 2, a file of order 1 written 01 and
\* titled like the file of order 2, a file whose title has an accent, a blank
\* and punctuation, and a name the pattern rejects
SectionFiles ==
    { File(DES \o <<"1", "-", "A">> \o TXT,
           << <<"a", "&">>, <<" ">>, <<"b", " ", "<", "u", ">">> >>),
      File(DES \o <<"2", "-", "B">> \o TXT, << <<"<", "u", ">">> >>),
      File(DES \o <<"0", "1", "-", "B">> \o TXT, <<>>),
      File(DES \o <<"1", "0", "-", "Aacute", " ", "b", "!">> \o TXT, << <<"c">> >>),
      File(DES \o <<"-", "A">> \o TXT, << <<"e">> >>) }

\* Pie.txt of a button group
FooterB == << <<"<", "B", ">">> >>

FooterMixed ==
    << <<"x", "<", "z", "z", ">", "&", "<", "Aacute", "!", ">">>, <<" ">>,
       <<"<", "!", ">", "<", ">", "<", "*", "a", "*", ">">> >>

Footers == {FooterB, FooterMixed}

GroupG(footer) ==
    [name |-> <<"G">>, is_dir |-> TRUE,
     files |-> { File(<<"1", ".", "X">> \o TXT, << <<"t">>, <<"*", "u", "*">> >>),
                 File(PIE, footer) }]

GroupH ==
    [name |-> <<"H">>, is_dir |-> TRUE,
     files |-> { File(<<"2", ".", "Y">> \o TXT, << <<"y">> >>),
                 File(<<"2", ".", "Z">> \o TXT, << <<"z">> >>) }]

\* an entry of Botones that is a plain file
EntryN == [name |-> <<"N">>, is_dir |-> FALSE, files |-> {}]

NoImages == [png |-> FALSE, jpg |-> FALSE]

\* a content directory with every optional file and directory missing
EmptyContent ==
    [Titulo |-> Missing, Cuerpo |-> Missing, Despegables |-> {}, Botones |-> {},
     BENEFICIARIOS |-> Missing, REGISTRO |-> {}, Contacto |-> Missing,
     Redes |-> Missing, img |-> NoImages]

SampleTitulo == Present(<< <<"e">>, <<>>, <<"T", "&">>, <<"s">> >>)
SampleCuerpo == Present(<< <<" ">>, <<"a", "<">>, <<"b">> >>)
SampleBeneficiarios ==
    Present(<< <<"l">>, <<"*", "p", "*">>, <<"g", "o", " ", "<", "u", ">">> >>)
SampleRegistro ==
    { File(<<"R", "E", "G", "I", "S", "T", "R", "O">> \o TXT,
           << <<"h">>, <<"g", "o", "<", "u", ">">> >>),
      File(<<"R", "E", "G", "I", "S", "T", "R", "O", "2">> \o TXT, << <<"k">> >>) }
SampleContacto == Present(<< <<"c">>, <<>> >>)
SampleRedes == Present(<< <<"x", " ", "<", "u", ">">>, <<"n">> >>)

\* accordion runs: up to MaxFiles section files, at most one button group
AccordionContents ==
    { [EmptyContent EXCEPT !.Despegables = d, !.Botones = b] :
        d \in {s \in SUBSET SectionFiles : Cardinality(s) <= MaxFiles},
        b \in {{}} \cup {{GroupG(f)} : f \in Footers} }

\* page runs: each optional source present or missing
RegionContents ==
    { [Titulo |-> t, Cuerpo |-> c, Despegables |-> d, Botones |-> b,
       BENEFICIARIOS |-> bn, REGISTRO |-> r, Contacto |-> ct, Redes |-> rd,
       img |-> NoImages] :
        t \in {Missing, SampleTitulo}, c \in {Missing, SampleCuerpo},
        d \in {{}, {CHOOSE f \in SectionFiles : f.name = DES \o <<"2", "-", "B">> \o TXT}},
        b \in {{}, {GroupG(FooterB)}},
        bn \in {Missing, SampleBeneficiarios}, r \in {{}, SampleRegistro},
        ct \in {Missing, SampleContacto}, rd \in {Missing, SampleRedes} }

\* button-group runs: two groups, one of them with two buttons of the same
\* order, under each choice of hero images; and a group beside a plain file
GroupContents ==
    { [EmptyContent EXCEPT !.Botones = {GroupG(FooterB), GroupH}, !.img = g] :
        g \in {NoImages, [png |-> FALSE, jpg |-> TRUE], [png |-> TRUE, jpg |-> TRUE]} }
    \cup { [EmptyContent EXCEPT !.Botones = {GroupG(FooterB), EntryN}] }

\* beneficiary and registration runs: the trailing line of BENEFICIARIOS.txt
\* and a button line of the registration file with and without a <url>
BeneficiariosNoUrl == Present(<< <<"l">>, <<"p">>, <<"w">> >>)
RegistroNoUrl ==
    { File(<<"R", "E", "G", "I", "S", "T", "R", "O">> \o TXT,
           << <<"h">>, <<"w">>, <<"g", "o", "<", "u", ">">> >>) }

BlockContents ==
    { [EmptyContent EXCEPT !.BENEFICIARIOS = bn, !.REGISTRO = r] :
        bn \in {Missing, SampleBeneficiarios, BeneficiariosNoUrl,
                Present(<< <<"l">>, <<"w">> >>)},
        r \in {{}, SampleRegistro, RegistroNoUrl} }

Contents == AccordionContents \cup RegionContents \cup GroupContents \cup BlockContents

\* the orders in which a directory holding the entries S can be enumerated
Perms(S) ==
    {p \in [1..Cardinality(S) -> S] : \A a, b \in 1..Cardinality(S) : p[a] = p[b] => a = b}

\* an entry of Botones with its own files enumerated
DirListings(g) ==
    {[name |-> g.name, is_dir |-> g.is_dir, files |-> fs] : fs \in Perms(g.files)}

\* the enumerations of the directories of content directory c
Listings(c) ==
    { [Despegables |-> d, Botones |-> b, REGISTRO |-> r] :
        d \in Perms(c.Despegables),
        b \in {q \in [1..Cardinality(c.Botones) ->
                         UNION {DirListings(g) : g \in c.Botones}] :
                  \A x, y \in 1..Cardinality(c.Botones) :
                      q[x].name = q[y].name => x = y},
        r \in Perms(c.REGISTRO) }

(***************************************************************************)
(* The runs: main() builds and writes the page, the browser loads it, the  *)
(* user clicks section buttons and footer links.                           *)
(***************************************************************************)
NoListing == [Despegables |-> <<>>, Botones |-> <<>>, REGISTRO |-> <<>>]

Init ==
    /\ content \in Contents
    /\ listing = NoListing
    /\ prev = [listing |-> NoListing, html |-> <<>>]
    /\ sections = <<>>
    /\ out_html = <<>>
    /\ dom = <<>>
    /\ is_active = <<>>
    /\ aria = <<>>
    /\ text = <<>>
    /\ allow_links = TRUE
    /\ i = 0
    /\ out = <<>>

\* main, lines 999-1002, the filesystem enumerating the directories as ls.
\* The script and the browser share index.html and nothing else (Main leaves
\* the document alone, the handlers leave the file alone), so the runs are
\* taken before the page is loaded: interleaving them with clicks adds no
\* state of either.  A run reads nothing an earlier run left behind, so a run
\* and one re-run show every pair of runs.
Main ==
    /\ dom = <<>>
    /\ prev.html = <<>>
    /\ \E ls \in Listings(content) :
        /\ listing' = ls
        /\ prev' = [listing |-> listing, html |-> out_html]
        /\ sections' = parse_sections(ls.Despegables)
        /\ out_html' = build_html(content, ls)
        /\ UNCHANGED <<content, dom, is_active, aria, inlineVars>>

\* the browser loads index.html
LoadPage ==
    /\ out_html # <<>>
    /\ LET d == document(out_html)
       IN  /\ d # <<>>
           /\ dom' = d
           /\ is_active' = [e \in 1..Len(d) |-> d[e].active]
           /\ aria' = [e \in 1..Len(d) |-> d[e].aria]
    /\ UNCHANGED <<content, listing, prev, sections, out_html, inlineVars>>

\* lines 965-978: the click handler of section button b
ClickButton(b) ==
    LET targetId == dom[b].target
        panel    == getElementById(targetId)
        willOpen == ~is_active[panel]
    IN  /\ panel # 0
        /\ is_active' = IF willOpen THEN opened_active(panel, b) ELSE closed_active
        /\ aria' = IF willOpen THEN opened_aria(panel, b) ELSE closed_aria
        /\ UNCHANGED <<content, listing, prev, sections, out_html, dom, inlineVars>>

\* openById, lines 951-963
openById_active(targetId) ==
    IF getElementById(targetId) = 0 THEN is_active
    ELSE opened_active(getElementById(targetId), find_button(targetId))

openById_aria(targetId) ==
    IF getElementById(targetId) = 0 THEN aria
    ELSE opened_aria(getElementById(targetId), find_button(targetId))

\* lines 980-988: the click handler of footer link l
ClickLink(l) ==
    LET targetId == dom[l].target
    IN  /\ is_active' = IF targetId # "" THEN openById_active(targetId) ELSE is_active
        /\ aria' = IF targetId # "" THEN openById_aria(targetId) ELSE aria
        /\ UNCHANGED <<content, listing, prev, sections, out_html, dom, inlineVars>>

Next ==
    \/ Main
    \/ LoadPage
    \/ \E b \in buttons : ClickButton(b)
    \/ \E l \in links : ClickLink(l)

Spec == Init /\ [][Next]_vars

(***************************************************************************)
(* Inputs of render_inline: concatenations of at most MaxFrags fragments.  *)
(***************************************************************************)
Fragments ==
    { <<"*">>, <<"*", "*">>, <<"a">>, <<"&">>, <<"<">>, <<">">>, <<"\"">>,
      <<"'">>,
      LINK_OPEN \o <<"\"">>,
      <<"\"", "=">>,
      LINK_OPEN \o <<"\"", "*", "a", "*", "\"", "=", "<", "u", "\"", ">">>,
      LINK_OPEN \o <<"\"", "*", "*", "*", "a", "*", "x", "*", "*", "\"", "=", "u", ">">> }

RECURSIVE Concat(_)
Concat(fs) == IF fs = <<>> THEN <<>> ELSE Head(fs) \o Concat(Tail(fs))

Texts ==
    UNION { {Concat(fs) : fs \in [1..n -> Fragments]} : n \in 0..MaxFrags }

(***************************************************************************)
(* The scan loop of a top-level call of render_inline, one action per      *)
(* branch of the loop body.                                                *)
(***************************************************************************)
InitInline ==
    /\ text \in Texts
    /\ allow_links \in BOOLEAN
    /\ i = 0
    /\ out = <<>>
    /\ content = <<>>
    /\ listing = <<>>
    /\ prev = <<>>
    /\ sections = <<>>
    /\ out_html = <<>>
    /\ dom = <<>>
    /\ is_active = <<>>
    /\ aria = <<>>

\* lines 175-184: the link marker matches at i
ScanLink ==
    /\ i < Len(text)
    /\ LET s == scan_step(text, allow_links, i)
       IN  /\ s.branch = "link"
           /\ i' = s.i
           /\ out' = out \o s.out
    /\ UNCHANGED <<text, allow_links>>
    /\ UNCHANGED pageVars

\* lines 185-191: "**" at i with a closing "**"
ScanBold2 ==
    /\ i < Len(text)
    /\ LET s == scan_step(text, allow_links, i)
       IN  /\ s.branch = "bold2"
           /\ i' = s.i
           /\ out' = out \o s.out
    /\ UNCHANGED <<text, allow_links>>
    /\ UNCHANGED pageVars

\* lines 192-198: "*" at i with a closing "*"
ScanBold1 ==
    /\ i < Len(text)
    /\ LET s == scan_step(text, allow_links, i)
       IN  /\ s.branch = "bold1"
           /\ i' = s.i
           /\ out' = out \o s.out
    /\ UNCHANGED <<text, allow_links>>
    /\ UNCHANGED pageVars

\* lines 199-200: one character, escaped
ScanLiteral ==
    /\ i < Len(text)
    /\ LET s == scan_step(text, allow_links, i)
       IN  /\ s.branch = "literal"
           /\ i' = s.i
           /\ out' = out \o s.out
    /\ UNCHANGED <<text, allow_links>>
    /\ UNCHANGED pageVars

NextInline == ScanLink \/ ScanBold2 \/ ScanBold1 \/ ScanLiteral

SpecInline == InitInline /\ [][NextInline]_vars

\* the loop has ended: out is what render_inline returns
Returned == i >= Len(text)

RawMeta == {"<", ">", "&", "\""}

\* C5 (as claimed): an input that opens with "**" and holds no further
\* asterisk and no link marker is rendered as its characters escaped one by
\* one: both asterisks, then the text, and no <strong> element.
C5_UnterminatedBoldLiteral ==
    ( /\ Returned
      /\ startswith(text, <<"*", "*">>, 0)
      /\ find(text, <<"*">>, 2) = -1
      /\ find(text, LINK_OPEN, 0) = -1 )
    => /\ out = [k \in 1..Len(text) |->
                   IF text[k] \in RawMeta \/ text[k] = "'"
                   THEN esc_char(text[k]) ELSE text[k]]
       /\ \A k \in 1..Len(out) : out[k] # "<strong>"

\* C9: at every point of the scan, and so in the returned string, no token
\* of the output is a raw <, >, & or ": those characters occur only inside
\* the literal tag pieces generated for a link or a bold marker, and a
\* metacharacter of the input appears as its entity.
C9_OnlyEscapedMeta ==
    \A k \in 1..Len(out) : out[k] \notin RawMeta

C9_Witness ==
    /\ Returned
    /\ \E k \in 1..Len(text) : text[k] = "&"
    /\ \E k \in 1..Len(out) : out[k] = "&amp;"
    /\ \E k \in 1..Len(out) : out[k] = "&quot;"
    /\ \E k \in 1..Len(out) : out[k] = "<a href=\""
    /\ \E k \in 1..Len(out) : out[k] = "<strong>"

(***************************************************************************)
(* The page and its sections, as the claims speak of them.                 *)
(***************************************************************************)
\* the k-th element of the set S of document positions
nth_of(S, k) == CHOOSE e \in S : Cardinality({q \in S : q < e}) = k - 1

\* the panel and the button rendered for sections[k]
PanelOf(k) == nth_of(panels, k)
ButtonOf(k) == nth_of(buttons, k)

\* the bracketed labels of a footer, in order
LabelsOf(footer) ==
    LET parts == SelectSeq(split_labels(footer, 0),
                     LAMBDA part : startswith(part, <<"<">>, 0) /\ endswith(part, <<">">>))
    IN  [k \in 1..Len(parts) |-> strip(slice(parts[k], 1, Len(parts[k]) - 1))]

\* the labels of all group footers of the last run, in page order
AllLabels ==
    LET groups == parse_buttons(listing.Botones)
    IN  join_empty([g \in 1..Len(groups) |-> LabelsOf(groups[g].footer)])

\* the sections whose normalized title contains the normalized label
MatchSet(label) ==
    {k \in 1..Len(sections) :
        /\ normalize_text(label) # <<>>
        /\ contains(normalize_text(sections[k].title), normalize_text(label))}

LinkedLabels == SelectSeq(AllLabels, LAMBDA label : MatchSet(label) # {})

\* the section a linked label resolves to: the first that matches
TargetSection(label) == CHOOSE k \in MatchSet(label) : \A h \in MatchSet(label) : k <= h

\* the data-open values of the page, in page order
DataOpenTargets(html) ==
    LET ls == SelectSeq(document(html), LAMBDA el : el.kind = "link")
    IN  [n \in 1..Len(ls) |-> ls[n].target]

\* C1: at most one accordion panel is open, by class and by aria-hidden, in
\* the rendered page and after any clicks on section buttons and footer links.
C1_OnePanelAtATime ==
    Cardinality({e \in panels : is_active[e] \/ aria[e] = "false"}) <= 1

C1_Witness ==
    /\ Cardinality(panels) >= 2
    /\ \E e \in panels : is_active[e] /\ ~dom[e].active /\ aria[e] = "false"

\* C2 (as claimed): a click on a footer link whose label resolves to section
\* T leaves exactly T's panel open and T's button active.
C2_LinkOpensItsSection ==
    [][\A l \in links :
          ClickLink(l) =>
              LET n == Cardinality({q \in links : q <= l})
                  T == TargetSection(LinkedLabels[n])
              IN  /\ \A k \in 1..Len(sections) : is_active'[PanelOf(k)] <=> k = T
                  /\ is_active'[ButtonOf(T)]]_vars

\* C3 (as claimed): a click on the button of a section whose panel is closed
\* leaves that panel the only open one; a click on the button of a section
\* whose panel is open leaves no panel open.
C3_ButtonTogglesItsSection ==
    [][\A k \in 1..Len(sections) :
          (Len(dom) > 0 /\ ClickButton(ButtonOf(k))) =>
              IF is_active[PanelOf(k)]
              THEN \A j \in 1..Len(sections) : ~is_active'[PanelOf(j)]
              ELSE \A j \in 1..Len(sections) : is_active'[PanelOf(j)] <=> j = k]_vars

\* C4: after a run, whatever the enumeration of Despegables, sections holds
\* one record per file the name pattern accepts, in ascending order, the page
\* renders them in that order, and exactly the first is rendered expanded
\* (is-active, aria-expanded=true, aria-hidden=false).
C4_SortedFirstExpanded ==
    out_html # <<>> =>
        LET d  == document(out_html)
            bs == SelectSeq(d, LAMBDA el : el.kind = "button")
            ps == SelectSeq(d, LAMBDA el : el.kind = "panel")
        IN  /\ Len(sections) =
                   Cardinality({f \in content.Despegables : section_name_match(f.name).ok})
            /\ \A a, b \in 1..Len(sections) :
                   a < b => sections[a].order <= sections[b].order
            /\ Len(bs) = Len(sections) /\ Len(ps) = Len(sections)
            /\ \A k \in 1..Len(sections) :
                   /\ bs[k].target = sec_id(sections[k].order)
                   /\ ps[k].id = sec_id(sections[k].order)
                   /\ bs[k].active <=> k = 1
                   /\ ps[k].active <=> k = 1
                   /\ bs[k].aria = (IF k = 1 THEN "true" ELSE "false")
                   /\ ps[k].aria = (IF k = 1 THEN "false" ELSE "true")

\* the filesystem listed Des2-B.txt before Des1-A.txt
C4_Witness ==
    /\ out_html # <<>>
    /\ Len(listing.Despegables) = 2
    /\ listing.Despegables[1].name = DES \o <<"2", "-", "B">> \o TXT
    /\ listing.Despegables[2].name = DES \o <<"1", "-", "A">> \o TXT
    /\ sections[1].title = <<"A">>
    /\ sections[2].title = <<"B">>

OptionalContainers ==
    { "<section class=\"beneficiarios\" data-animate=\"3\">",
      "<section class=\"indicator-section\" data-animate=\"3\">",
      "<section class=\"registro-band\" data-animate=\"3\">",
      "<section class=\"sections\" data-animate=\"3\">",
      "<div class=\"accordion\">",
      "<section class=\"contacto\" data-animate=\"3\">" }

\* C6 (as claimed): a page built from a content directory in which every
\* optional file and directory is missing holds none of the beneficiary,
\* indicator, registration, accordion and contact containers.
C6_NoEmptyContainers ==
    ( /\ out_html # <<>>
      /\ content.Titulo = Missing /\ content.Cuerpo = Missing
      /\ content.Despegables = {} /\ content.Botones = {}
      /\ content.BENEFICIARIOS = Missing /\ content.REGISTRO = {}
      /\ content.Contacto = Missing /\ content.Redes = Missing )
    => \A k \in 1..Len(out_html) : out_html[k] \notin OptionalContainers

\* C7: the links of the page are, in page order, the labels whose normalized
\* form is not empty and occurs in the normalized title of some section, and
\* each link's data-open is the identifier of the first such section in
\* section order.
C7_FirstMatchWins ==
    out_html # <<>> =>
        DataOpenTargets(out_html) =
            [n \in 1..Len(LinkedLabels) |->
                sec_id(sections[TargetSection(LinkedLabels[n])].order)]

\* a label matches two sections that have different identifiers
C7_Witness ==
    /\ out_html # <<>>
    /\ \E n \in 1..Len(LinkedLabels) :
           Cardinality({sec_id(sections[k].order) : k \in MatchSet(LinkedLabels[n])}) >= 2

\* the rendered footers of the page: the tokens of each indicator-footer
FooterHtmls(html) ==
    LET opens == {p \in 1..Len(html) : html[p] = "<p class=\"indicator-footer\">"}
        close(p) == CHOOSE q \in p..Len(html) :
                        html[q] = "</p>" /\ \A r \in p..(q - 1) : html[r] # "</p>"
    IN  [n \in 1..Cardinality(opens) |->
            SubSeq(html, nth_of(opens, n) + 1, close(nth_of(opens, n)) - 1)]

\* what a footer is claimed to render to, part by part
ClaimedPart(part) ==
    LET label == strip(slice(part, 1, Len(part) - 1))
    IN  IF ~(startswith(part, <<"<">>, 0) /\ endswith(part, <<">">>))
        THEN render_inline(part, TRUE)
        ELSE IF MatchSet(label) = {}
        THEN render_inline(label, TRUE)
        ELSE <<INDICATOR_LINK, sec_id(sections[TargetSection(label)].order), "\">">>
             \o render_inline(label, TRUE) \o <<"</a>">>

ClaimedFooter(footer) ==
    LET parts == split_labels(footer, 0)
    IN  join_empty([k \in 1..Len(parts) |-> ClaimedPart(parts[k])])

\* C8: every footer is rendered part by part, and a bracketed label that
\* matches no section, or whose normalized form is empty, is rendered as the
\* inline markup of the label without its angle brackets and without an
\* indicator-link anchor.
C8_UnmatchedLabelPlain ==
    out_html # <<>> =>
        LET groups  == SelectSeq(parse_buttons(listing.Botones),
                                 LAMBDA g : g.footer # <<>>)
            footers == FooterHtmls(out_html)
        IN  /\ Len(footers) = Len(groups)
            /\ \A g \in 1..Len(groups) : footers[g] = ClaimedFooter(groups[g].footer)
            /\ Len(DataOpenTargets(out_html)) = Len(LinkedLabels)

\* a footer with a label no title contains and a label that normalizes to
\* nothing, on a page that has sections
C8_Witness ==
    /\ out_html # <<>>
    /\ sections # <<>>
    /\ \E n \in 1..Len(AllLabels) :
           normalize_text(AllLabels[n]) # <<>> /\ MatchSet(AllLabels[n]) = {}
    /\ \E n \in 1..Len(AllLabels) :
           AllLabels[n] # <<>> /\ normalize_text(AllLabels[n]) = <<>>
    /\ LinkedLabels # <<>>

\* what of an enumeration the page depends on: the order of the button-group
\* directories, and the relative order of section files of equal order and of
\* button files of equal order
TiesOf(dir, orders) ==
    {<<dir[a].name, dir[b].name>> : a, b \in 1..Len(dir)} \cap
    UNION {{<<dir[a].name, dir[b].name>> :
               b \in {x \in (a + 1)..Len(dir) : orders[a] >= 0 /\ orders[x] = orders[a]}} :
           a \in 1..Len(dir)}

SectionOrders(dir) ==
    [k \in 1..Len(dir) |->
        IF section_name_match(dir[k].name).ok
        THEN int(section_name_match(dir[k].name).group1) ELSE 0 - 1]

ButtonOrders(dir) ==
    [k \in 1..Len(dir) |->
        IF button_name_match(dir[k].name).ok /\ lower(dir[k].name) # lower(PIE)
        THEN int(button_name_match(dir[k].name).group1) ELSE 0 - 1]

OrderKey(ls) ==
    LET dirs == SelectSeq(ls.Botones, LAMBDA g : g.is_dir)
    IN  [groups   |-> [k \in 1..Len(dirs) |-> dirs[k].name],
         sections |-> TiesOf(ls.Despegables, SectionOrders(ls.Despegables)),
         buttons  |-> {<<dirs[k].name, TiesOf(dirs[k].files, ButtonOrders(dirs[k].files))>> :
                          k \in 1..Len(dirs)}]

\* C10 (as claimed): a re-run over the same content directory writes the
\* page the run before wrote, however the filesystem enumerates this time.
C10_RerunIdentical ==
    prev.html # <<>> => out_html = prev.html

\* C10 (amended): a re-run writes the same page when it enumerates the
\* button-group directories in the same order, and the section files of
\* equal order and the button files of equal order in the same relative
\* order, as the run before; how it enumerates the rest does not matter.
C10_RerunIdenticalSameTieOrder ==
    (prev.html # <<>> /\ OrderKey(prev.listing) = OrderKey(listing))
    => out_html = prev.html

\* two runs that enumerated Despegables, a group's files and the
\* registration files differently, with nothing of equal order
C10_Witness ==
    /\ prev.html # <<>>
    /\ OrderKey(prev.listing) = OrderKey(listing)
    /\ \/ /\ Len(sections) = 2
          /\ prev.listing.Despegables # listing.Despegables
       \/ /\ Len(listing.REGISTRO) = 2
          /\ prev.listing.REGISTRO # listing.REGISTRO
          /\ prev.listing.Botones # listing.Botones

\* the text records the Content Loader built in the last run
TextRecords ==
    LET groups == parse_buttons(listing.Botones)
        body   == parse_body(content.Cuerpo)
        cont   == parse_contacto(content.Contacto)
    IN  {body[k] : k \in 1..Len(body)}
        \cup {cont[k] : k \in 1..Len(cont)}
        \cup {sections[k].title : k \in 1..Len(sections)}
        \cup UNION {{sections[k].items[j].text : j \in 1..Len(sections[k].items)} :
                       k \in 1..Len(sections)}
        \cup UNION {{groups[g].buttons[b].title : b \in 1..Len(groups[g].buttons)} :
                       g \in 1..Len(groups)}
        \cup UNION {{groups[g].buttons[b].text : b \in 1..Len(groups[g].buttons)} :
                       g \in 1..Len(groups)}

\* C11 (as claimed): after a run, every text record of the loader (body and
\* contact paragraphs, section titles, section item texts, button titles and
\* button texts) is a non-empty string after trimming.
C11_TextRecordsNonEmpty ==
    out_html # <<>> => \A t \in TextRecords : strip(t) # <<>>

\* the iterations of the scan loop of render_inline(t, allow) from position
\* k on, and of every call below them: each moves the position forward and
\* each call it makes is on a text shorter than t
RECURSIVE calls_shorter(_, _, _)
calls_shorter(t, allow, k) ==
    k >= Len(t) \/
    LET s == scan_step(t, allow, k)
    IN  /\ s.i > k
        /\ \A r \in 1..Len(s.rec) :
               /\ Len(s.rec[r].text) < Len(t)
               /\ calls_shorter(s.rec[r].text, s.rec[r].allow_links, 0)
        /\ calls_shorter(t, allow, s.i)

\* C12: every iteration of the scan loop moves the position forward by at
\* least one character, and every recursive call, at any depth, is made on
\* a text strictly shorter than the text of the call that makes it.
C12_ScanTerminates ==
    [][i' > i /\ i' <= Len(text) /\ calls_shorter(text, allow_links, i)]_vars

\* a scan returned after a link whose TEXT holds a bold marker and after a
\* literal character, the calls nesting two deep
C12_Witness ==
    /\ Returned
    /\ i > 0
    /\ \E k \in 0..(Len(text) - 1) :
           LET s == scan_step(text, allow_links, k)
           IN  /\ s.branch = "link"
               /\ scan_step(s.rec[1].text, FALSE, 0).branch = "bold1"
               /\ Len(scan_step(s.rec[1].text, FALSE, 0).rec[1].text) > 0
    /\ \E k \in 0..(Len(text) - 1) : scan_step(text, allow_links, k).branch = "literal"

\* the call render_inline(t, allow) is made below a link's TEXT: link markers
\* are disabled in it, no iteration of its loop from k on takes the link
\* branch, and the same holds of every call it makes
RECURSIVE links_disabled(_, _, _)
links_disabled(t, allow, k) ==
    /\ allow = FALSE
    /\ k >= Len(t) \/
       LET s == scan_step(t, allow, k)
       IN  /\ s.branch # "link"
           /\ \A r \in 1..Len(s.rec) :
                  links_disabled(s.rec[r].text, s.rec[r].allow_links, 0)
           /\ s.i > k /\ links_disabled(t, allow, s.i)

\* the anchors open after the first n tokens of o
AnchorDepth(o, n) ==
    Cardinality({p \in 1..n : o[p] = "<a href=\""})
    - Cardinality({p \in 1..n : o[p] = "</a>"})

\* C13: whenever the scan renders a link marker, its TEXT and every bold
\* inner text below it, at any depth, is rendered with link markers
\* disabled, and the output never holds an anchor inside an anchor.
C13_NoLinkInLink ==
    [][/\ scan_step(text, allow_links, i).branch = "link" =>
              LET call == scan_step(text, allow_links, i).rec[1]
              IN  links_disabled(call.text, call.allow_links, 0)
        /\ \A n \in 1..Len(out') : AnchorDepth(out', n) \in {0, 1}]_vars

\* a link whose TEXT holds a bold marker inside a bold marker has been
\* rendered: the anchor holds the bold elements
C13_Witness ==
    /\ Returned
    /\ \E p \in 1..Len(out) :
           /\ out[p] = "<strong>"
           /\ AnchorDepth(out, p) = 1
    /\ \E k \in 0..(Len(text) - 1) :
           LET s  == scan_step(text, allow_links, k)
               s2 == scan_step(s.rec[1].text, s.rec[1].allow_links, 0)
           IN  /\ s.branch = "link"
               /\ s2.branch = "bold2"
               /\ scan_step(s2.rec[1].text, s2.rec[1].allow_links, 0).branch = "bold1"

\* C14 (as claimed): the identifiers of the sections of a run are pairwise
\* distinct, and in every state of the page a section's button is marked
\* active exactly when that section's own panel is open.
C14_ButtonPanelConsistent ==
    /\ \A a, b \in 1..Len(sections) :
           sec_id(sections[a].order) = sec_id(sections[b].order) => a = b
    /\ \A k \in 1..Cardinality(panels) :
           /\ is_active[ButtonOf(k)] <=> is_active[PanelOf(k)]
           /\ aria[ButtonOf(k)] = "true" <=> aria[PanelOf(k)] = "false"

\* the non-blank lines of BENEFICIARIOS.txt and of the registration file
\* the run chose
BlockLines ==
    LET bn == IF content.BENEFICIARIOS.exists
              THEN nonblank_lines(content.BENEFICIARIOS.lines) ELSE <<>>
        rs == sorted_paths(listing.REGISTRO)
        rg == IF rs = <<>> THEN <<>> ELSE nonblank_lines(rs[1].lines)
    IN  {bn[k] : k \in 1..Len(bn)} \cup {rg[k] : k \in 1..Len(rg)}

\* the page shows the text of line: the line rendered whole, or the text
\* before its <url> rendered as the label of a button to that url
Contributes(line) ==
    LET link == split_full_link(line)
    IN  \/ contains(out_html, <<"<p class=\"beneficiarios-lead\">">>
                  \o render_inline(line, TRUE) \o <<"</p>">>)
        \/ contains(out_html, <<"<p>">> \o render_inline(line, TRUE) \o <<"</p>">>)
        \/ /\ link.matched
           /\ contains(out_html, esc(link.url)
                  \o <<"\" target=\"_blank\" rel=\"noopener\">">>
                  \o render_inline(link.text, TRUE) \o <<"</a>">>)

\* C15 (as claimed): every non-blank line of BENEFICIARIOS.txt and of the
\* chosen registration file shows its text on the page, as lead, paragraph,
\* heading or button, also when a button line carries no <url>.
C15_NoBlockLineLost ==
    out_html # <<>> => \A line \in BlockLines : Contributes(line)

====
